---- MODULE Spec2Model ----
(***************************************************************************)
(* The autonomous posting pipeline of the repository: the JSON-file store  *)
(* (rss-service.js: getDb / saveDb), the post queue                        *)
(* (post-queue-service.js) and the two cron cycles of                      *)
(* automation-scheduler.js (runPostGenerationJob, runPublishingJob),       *)
(* together with the operator routes of the express server.                *)
(*                                                                         *)
(* Every queue function is `db = await getDb(); mutate db; await           *)
(* saveDb(db)`: the whole file is read, changed in memory and written      *)
(* back. The read and the write are separate steps of the event loop, so   *)
(* each function is modelled as a Read action (which also computes the     *)
(* mutated copy, held in the caller's `buf`) and a Write action            *)
(* (file' = buf).                                                          *)
(***************************************************************************)
EXTENDS Integers, Sequences, FiniteSets, TLC

\* ---------------------------------------------------------------- bounds
MaxPosts == 2        \* ids handed out by createScheduledPost
NumArticles == 2     \* articles in the store
MaxTicks == 1        \* clock advances
MaxRequests == 1     \* operator requests in a run
MaxCronRequests == 3 \* requests to POST /api/cron/process in a run
MaxCronTicks == 2    \* advances of that route's clock
CronTickMins == 25   \* minutes of one advance
MaxPublishRequests == 2 \* requests to the publish route in a run

\* ------------------------------------------------------ program constants
NULL == -1                      \* JavaScript null (times, ids, scores)
TickHours == 6                  \* the generation timer's period, in hours
DefaultPostingInterval == 6     \* automationConfig.postingInterval of a new db
DefaultMinQuality == 70         \* parseInt(process.env.MIN_QUALITY_SCORE) || 70
PassScore == 70                 \* scorePost: passed = totalScore >= 70
AutoApproveScore == 80          \* runPostGenerationJob: totalScore >= 80
NaN == -2                       \* Number() of a slot string that is no number
HoursPerDay == 24
DaysPerWeek == 7                \* the days calculateCustomPostTime scans
FallbackInterval == 6           \* calculateIntervalPostTime(6), postingInterval || 6

\* invocations that may be in flight together: one from the timer, one from the
\* manual trigger (a name is reused by the following invocation)
GenCycles == {"gtimer", "gmanual"}   \* cron '0 */6 * * *' and manualGeneratePost
PubCycles == {"ptimer", "pmanual"}   \* cron '*/30 * * * *' and manualPublishPosts
Articles == 1..NumArticles           \* article ids; a larger id has a later pubDate
PostIds == 1..MaxPosts
Scores == {65, 72, 85}               \* totalScore of a generated draft
EnvMinQuality == {NULL, 75}          \* process.env.MIN_QUALITY_SCORE: unset, "75"
\* stored customSchedule values, sunday to saturday: unset, no slot at all, only
\* monday 09:00, only saturday 10:00, monday 09:00 and 15:00 with friday 09:00,
\* and a monday slot string that is not a time
CustomSchedules ==
  { <<>>,
    << <<>>, <<>>, <<>>, <<>>, <<>>, <<>>, <<>> >>,
    << <<>>, <<9>>, <<>>, <<>>, <<>>, <<>>, <<>> >>,
    << <<>>, <<>>, <<>>, <<>>, <<>>, <<>>, <<10>> >>,
    << <<>>, <<9, 15>>, <<>>, <<>>, <<>>, <<9>>, <<>> >>,
    << <<>>, <<NaN>>, <<>>, <<>>, <<>>, <<>>, <<>> >> }
ScheduleTypes == {"unset", "interval", "custom"}
\* clock readings: monday 08:00, 09:00, 10:00, friday 20:00, saturday 10:00
StartHours == {32, 33, 34, 140, 154}
RequestedIntervals == {1, 25}        \* postingInterval in a PUT /api/automation/config

VARIABLES
  file,       \* the parsed content of the database file
  now,        \* the wall clock, in hours
  nextId,     \* the next fresh post id (Date.now() + random suffix: never reused)
  gen,        \* per generation cycle: position and locals
  pub,        \* per publish cycle: position and locals
  op,         \* the operator request in flight
  requests,   \* operator requests served so far
  markCount,  \* history: how often markPostAsPosted was written for each id
  calc,       \* the pure computations: their inputs from outside, their result
  switch,     \* history: the operator's last completed toggle
  cron,       \* POST /api/cron/process: its database file, its requests, and
              \* the times at which LinkedIn received a post from it
  web         \* the Bull posting queue, the post it works on, the requests
              \* of the publish route, and the posts LinkedIn received

vars ==
  <<file, now, nextId, gen, pub, op, requests, markCount, calc, switch, cron,
    web>>

\* ------------------------------------------------------------- the store
\* scheduleType "unset", customSchedule <<>> and pauseOnWeekends FALSE stand
\* for the fields a new database does not have (undefined)
DefaultConfig ==
  [enabled |-> FALSE, postingInterval |-> DefaultPostingInterval,
   lastRun |-> NULL, nextRun |-> NULL,
   scheduleType |-> "unset", customSchedule |-> <<>>, pauseOnWeekends |-> FALSE]

\* initializeDb: the structure of a new database (articles come from the feeds)
NewDb ==
  [articles |-> [a \in Articles |-> FALSE],     \* article id -> processed
   posts    |-> <<>>,                           \* db.scheduledPosts, in push order
   config   |-> DefaultConfig]

\* db.scheduledPosts.find(p => p.id === postId): its index, 0 when absent
FindPost(db, id) ==
  IF \E k \in 1..Len(db.posts) : db.posts[k].id = id
  THEN CHOOSE k \in 1..Len(db.posts) :
         /\ db.posts[k].id = id
         /\ \A j \in 1..(k - 1) : db.posts[j].id # id
  ELSE 0

HasPost(db, id) == FindPost(db, id) # 0
PostOf(db, id) == db.posts[FindPost(db, id)]

\* calculateNextPostTime(intervalHours): addHours(new Date(), intervalHours)
CalculateNextPostTime(t, intervalHours) == t + intervalHours

\* a getReadyPosts without the scheduledFor test
GetReadyPostsNotDue(db, t) ==
  SelectSeq(db.posts, LAMBDA p : p.status = "approved" /\ p.postedAt = NULL)

\* getReadyPosts: approved, due and not yet posted, in array order
GetReadyPosts(db, t) ==
  SelectSeq(db.posts,
    LAMBDA p : p.status = "approved" /\ p.scheduledFor <= t /\ p.postedAt = NULL)

\* getUnprocessedArticles(5)[0]: the unprocessed article with the latest pubDate
UnprocessedArticles(db) == {a \in Articles : ~db.articles[a]}
MostRecent(S) == CHOOSE a \in S : \A b \in S : b <= a

\* createScheduledPost: the record pushed onto db.scheduledPosts
NewPost(id, articleId, content, scheduledFor, t) ==
  [id |-> id, articleId |-> articleId, content |-> content,
   scheduledFor |-> scheduledFor, status |-> "pending", linkedInPostId |-> NULL,
   createdAt |-> t, postedAt |-> NULL, error |-> ""]

CreateScheduledPost(db, post) == [db EXCEPT !.posts = Append(@, post)]

\* approvePost on a db that holds the record
ApprovePost(db, id) ==
  [db EXCEPT !.posts[FindPost(db, id)].status = "approved"]

\* markPostAsPosted on a db that holds the record
MarkPostAsPosted(db, id, linkedInPostId, t) ==
  [db EXCEPT !.posts[FindPost(db, id)] =
     [@ EXCEPT !.status = "posted", !.postedAt = t,
               !.linkedInPostId = linkedInPostId]]

\* markPostAsFailed on a db that holds the record
MarkPostAsFailed(db, id, error) ==
  [db EXCEPT !.posts[FindPost(db, id)] =
     [@ EXCEPT !.status = "failed", !.error = error]]

\* deleteScheduledPost: filter(p => p.id !== postId)
DeleteScheduledPost(db, id) ==
  [db EXCEPT !.posts = SelectSeq(@, LAMBDA p : p.id # id)]

\* markArticleProcessed
MarkArticleProcessed(db, a) == [db EXCEPT !.articles[a] = TRUE]

\* updateAutomationConfig({lastRun, nextRun}): spread over the stored config
UpdateAutomationConfig(db, lastRun, nextRun) ==
  [db EXCEPT !.config = [@ EXCEPT !.lastRun = lastRun, !.nextRun = nextRun]]

\* updateAutomationConfig({postingInterval}): spread over the stored config
UpdatePostingInterval(db, interval) ==
  [db EXCEPT !.config = [@ EXCEPT !.postingInterval = interval]]

\* toggleAutomation(enabled)
ToggleAutomation(db, enabled, t) ==
  [db EXCEPT !.config =
     [@ EXCEPT !.enabled = enabled,
               !.nextRun = IF enabled /\ @ = NULL
                           THEN CalculateNextPostTime(t, db.config.postingInterval)
                           ELSE @]]

\* ------------------------------------------- custom-scheduling-service.js
\* An instant is [h |-> hours since a Sunday 00:00, s |-> its seconds and
\* milliseconds part, 0 or 1 for zero or not]; slots are whole hours ("HH:00").
Instant(h, secs) == [h |-> h, s |-> secs]

\* isBefore(a, b)
IsBefore(a, b) == a.h < b.h \/ (a.h = b.h /\ a.s < b.s)

\* getDay(now): 0 is Sunday
GetDay(t) == (t.h \div HoursPerDay) % DaysPerWeek

\* setMinutes(setHours(now, hours), minutes): the date and the seconds of now
SetHours(t, hours) == Instant((t.h - (t.h % HoursPerDay)) + hours, t.s)

\* DEFAULT_CUSTOM_SCHEDULE, from sunday to saturday
DefaultCustomSchedule ==
  << <<>>, <<9, 15, 21>>, <<9, 15, 21>>, <<9, 15, 21>>, <<9, 15, 21>>, <<9, 15>>, <<>> >>

\* calculateIntervalPostTime(intervalHours): addHours(new Date(), intervalHours)
CalculateIntervalPostTime(t, intervalHours) ==
  [kind |-> "time", at |-> Instant(t.h + intervalHours, t.s), days |-> 0]

\* the for loop over timesForDay, from index k: the first slot that is returned,
\* "none" when the loop ends; toISOString of an Invalid Date throws RangeError
RECURSIVE SlotOfDay(_, _, _, _)
SlotOfDay(times, k, t, daysChecked) ==
  IF k > Len(times) THEN [kind |-> "none", at |-> t, days |-> daysChecked]
  ELSE IF times[k] = NaN THEN [kind |-> "throws", at |-> t, days |-> daysChecked]
  ELSE LET candidateTime == SetHours(t, times[k]) IN
       IF daysChecked = 0 /\ IsBefore(candidateTime, t)
       THEN SlotOfDay(times, k + 1, t, daysChecked)
       ELSE [kind |-> "time",
             at |-> Instant(candidateTime.h + daysChecked * HoursPerDay, t.s),
             days |-> daysChecked]

\* the while (daysChecked < 7) loop of calculateCustomPostTime
RECURSIVE ScanDays(_, _, _, _, _)
ScanDays(customSchedule, pauseOnWeekends, t, currentDay, daysChecked) ==
  IF daysChecked >= DaysPerWeek
  THEN [CalculateIntervalPostTime(t, FallbackInterval) EXCEPT !.days = daysChecked]
  ELSE IF pauseOnWeekends /\ currentDay \in {0, 6}
  THEN ScanDays(customSchedule, pauseOnWeekends, t,
                (currentDay + 1) % DaysPerWeek, daysChecked + 1)
  ELSE LET r == SlotOfDay(customSchedule[currentDay + 1], 1, t, daysChecked) IN
       IF r.kind = "none"
       THEN ScanDays(customSchedule, pauseOnWeekends, t,
                     (currentDay + 1) % DaysPerWeek, daysChecked + 1)
       ELSE r

\* calculateCustomPostTime(config)
CalculateCustomPostTime(config, t) ==
  ScanDays(IF config.customSchedule = <<>> THEN DefaultCustomSchedule
           ELSE config.customSchedule,
           config.pauseOnWeekends, t, GetDay(t), 0)

\* calculateNextPostTime(config) of custom-scheduling-service.js
CalculateNextPostTimeOfConfig(config, t) ==
  IF config.scheduleType \in {"unset", "interval"}
  THEN CalculateIntervalPostTime(t,
         IF config.postingInterval = 0 THEN FallbackInterval
         ELSE config.postingInterval)
  ELSE CalculateCustomPostTime(config, t)

\* ------------------------------------------------------ linkedinService.ts
\* answers of POST /api/linkedin/post: status, whether errorDetails.inputErrors
\* holds a DUPLICATE_POST code, and what the message holds
Created == [status |-> 201, dupCode |-> FALSE, message |-> "none"]
Responses ==
  { Created,
    [status |-> 422, dupCode |-> FALSE, message |-> "duplicate of urn"],
    [status |-> 422, dupCode |-> TRUE, message |-> "none"],
    [status |-> 422, dupCode |-> FALSE, message |-> "other"],
    [status |-> 409, dupCode |-> FALSE, message |-> "duplicate"],
    [status |-> 403, dupCode |-> FALSE, message |-> "other"] }

\* response.ok
ResponseOk(r) == r.status >= 200 /\ r.status <= 299

\* response.status === 422 && (inputErrors has DUPLICATE_POST ||
\* message.toLowerCase().includes('duplicate'))
IsDuplicate(r) ==
  r.status = 422 /\ (r.dupCode \/ r.message \in {"duplicate", "duplicate of urn"})

\* postToLinkedIn: the identifier it returns, or the error it throws
PostToLinkedIn(r) ==
  IF ResponseOk(r) THEN [kind |-> "id", value |-> "data.id"]
  ELSE IF IsDuplicate(r)
  THEN [kind |-> "id",
        value |-> IF r.message = "duplicate of urn" THEN "urn in message"
                  ELSE "urn:li:share:duplicate_placeholder"]
  ELSE [kind |-> "throws",
        value |-> IF r.status = 403 THEN "Permission denied" ELSE "Failed to post"]

\* ------------------------------------------------------- quality decisions
\* scorePost: passed = totalScore >= 70
Passed(totalScore) == totalScore >= PassScore

\* parseInt(process.env.MIN_QUALITY_SCORE) || 70: NaN (unset) and 0 are falsy
MinQualityScore(env) == IF env = NULL \/ env = 0 THEN DefaultMinQuality ELSE env

\* runPostGenerationJob: !qualityScore.passed && totalScore < MIN_QUALITY_SCORE
NeedsRegeneration(totalScore, minQuality) ==
  ~Passed(totalScore) /\ totalScore < minQuality

\* an auto-approval at the scorer's pass mark
AutoApproveAtPass(totalScore) == totalScore >= PassScore

\* runPostGenerationJob: qualityScore.totalScore >= 80
AutoApprove(totalScore) == totalScore >= AutoApproveScore

\* ---------------------------------------------------------------- locals
\* env, first, regens and approved are history: what the cycle read from the
\* environment, its first score, the regenerations it asked for and whether it
\* went on to call approvePost
GenIdle ==
  [pc |-> "idle", interval |-> NULL, article |-> 0, content |-> "",
   first |-> NULL, env |-> NULL, regens |-> 0, score |-> NULL, sched |-> NULL,
   post |-> 0, approved |-> FALSE, result |-> "", buf |-> NewDb]

PubIdle == [pc |-> "idle", ready |-> <<>>, idx |-> 0, qnow |-> NULL, buf |-> NewDb]

OpIdle == [pc |-> "idle", kind |-> "", target |-> 0, buf |-> NewDb]

\* api is what the LinkedIn API answers to a post request
\* arg is the argument a pure function is called with
CalcIdle ==
  [pc |-> "idle", secs |-> 0, result |-> <<>>, api |-> Created, arg |-> <<>>]

\* ------------------------------- posting-queue.ts and the publish route
Attempts == 3                   \* attempts: 3

RouteRequests == {"q1", "q2"}

\* post.scheduledFor && post.schedule: not set, or set to a time after or
\* before the request
Schedulings == {"none", "future", "past"}

RouteIdle == [pc |-> "idle", response |-> ""]

\* a request adds at most one job
JobIds == 1..MaxPublishRequests

\* postingQueue.add({postId}, {delay, attempts: 3, backoff}); "none" is a
\* job not yet added
NewJob(state) == [state |-> state, attemptsMade |-> 0, pc |-> "", sent |-> 0]

\* post: the row of the Post table the requests are about; account: the
\* post has a linkedInAccount; schedule: the status of its PostSchedule row;
\* jobs: the jobs of postingQueue, in the order they were added (added of
\* them so far), sent being the createPost calls of the job that LinkedIn
\* accepted
WebOff ==
  [post |-> [exists |-> FALSE, account |-> FALSE, scheduling |-> "none",
             status |-> "DRAFT"],
   schedule |-> "PENDING",
   jobs |-> [k \in JobIds |-> NewJob("none")],
   added |-> 0,
   route |-> [q \in RouteRequests |-> RouteIdle],
   served |-> 0,
   analytics |-> 0]

\* --------------------------------------- POST /api/cron/process (route.ts)
\* times of this route are minutes, minute 0 being a Sunday at 00:00 in the
\* settings' time zone
MinutesPerHour == 60

MinutesPerDay == 1440

DebounceMins == 50              \* diffMins < 50

DriftBuffer == 5                \* customIntervalMins - 5

CronRequests == {"r1", "r2"}

\* a Monday and a Saturday at 09:00
CronStarts == {1980, 9180}

AutomationSettings ==
  [isEnabled : BOOLEAN, frequency : {"LOW", "MEDIUM", "HIGH", "ULTRA"},
   customIntervalEnabled : BOOLEAN, customIntervalMins : {0, 3, 30}]

CronReqIdle == [pc |-> "idle", response |-> ""]

CronOff ==
  [hasDb |-> FALSE,
   settings |-> [isEnabled |-> FALSE, frequency |-> "LOW",
                 customIntervalEnabled |-> FALSE, customIntervalMins |-> 0],
   lastPosted |-> NULL, token |-> FALSE, clock |-> 0, ticks |-> 0,
   served |-> 0, req |-> [r \in CronRequests |-> CronReqIdle],
   ugcPosts |-> <<>>]

\* the posting slots of a frequency, hours of the day
Slots(frequency) ==
  CASE frequency = "LOW" -> {9}
    [] frequency = "MEDIUM" -> {9, 17}
    [] frequency = "HIGH" -> {9, 13, 17}
    [] frequency = "ULTRA" -> {8, 11, 14, 18}

\* shouldPost(settings) at minute t
ShouldPost(settings, lastPosted, t) ==
  IF ~settings.isEnabled THEN FALSE
  ELSE IF settings.customIntervalEnabled /\ settings.customIntervalMins # 0
  THEN IF lastPosted = NULL THEN TRUE
       ELSE t - lastPosted >= settings.customIntervalMins - DriftBuffer
  ELSE LET hour == (t \div MinutesPerHour) % HoursPerDay
           day == (t \div MinutesPerDay) % DaysPerWeek
       IN  IF day \in {0, 6} /\ settings.frequency # "HIGH" THEN FALSE
           ELSE hour \in Slots(settings.frequency)

\* alreadyPostedThisHour(settings) at minute t
AlreadyPostedThisHour(settings, lastPosted, t) ==
  IF lastPosted = NULL THEN FALSE
  ELSE IF settings.customIntervalEnabled /\ settings.customIntervalMins # 0
  THEN t - lastPosted < settings.customIntervalMins - DriftBuffer
  ELSE t - lastPosted < DebounceMins

\* the route is deployed with or without automation-db.json and with or
\* without LINKEDIN_ACCESS_TOKEN
InitCron ==
  /\ file = NewDb
  /\ now = 0
  /\ nextId = 1
  /\ gen = [g \in GenCycles |-> GenIdle]
  /\ pub = [p \in PubCycles |-> PubIdle]
  /\ op = OpIdle
  /\ requests = 0
  /\ markCount = [i \in PostIds |-> 0]
  /\ calc = CalcIdle
  /\ switch = "none"
  /\ \E d \in BOOLEAN, k \in BOOLEAN, st \in AutomationSettings,
        t \in CronStarts :
       cron = [CronOff EXCEPT !.hasDb = d, !.token = k, !.settings = st,
                              !.clock = t]
  /\ web = WebOff

CronFrame ==
  UNCHANGED <<file, now, nextId, gen, pub, op, requests, markCount, calc,
              switch, web>>

\* POST: the security check, readDb, shouldPost and alreadyPostedThisHour, up
\* to the first request to the model
CronReceive(r) ==
  /\ cron.req[r].pc = "idle"
  /\ cron.served < MaxCronRequests
  /\ \E authorized \in BOOLEAN :
       cron' = [cron EXCEPT
         !.served = @ + 1,
         !.req[r] =
           IF ~authorized THEN [pc |-> "done", response |-> "Unauthorized"]
           ELSE IF ~cron.hasDb
           THEN [pc |-> "done", response |-> "No settings found"]
           ELSE IF ~ShouldPost(cron.settings, cron.lastPosted, cron.clock)
           THEN [pc |-> "done", response |-> "Skipped: Not the right time"]
           ELSE IF AlreadyPostedThisHour(cron.settings, cron.lastPosted,
                                         cron.clock)
           THEN [pc |-> "done", response |-> "Skipped: Already posted"]
           ELSE [pc |-> "generate", response |-> ""]]
  /\ CronFrame

\* the two chat completions and parseLLMJson; without an access token the
\* route goes on to the database update
CronGenerate(r) ==
  /\ cron.req[r].pc = "generate"
  /\ \E ok \in BOOLEAN :
       cron' = [cron EXCEPT !.req[r] =
         IF ~ok THEN [pc |-> "done", response |-> "error"]
         ELSE [@ EXCEPT !.pc = IF cron.token THEN "post" ELSE "update"]]
  /\ CronFrame

\* axios.get userinfo and axios.post ugcPosts: LinkedIn receives the post
CronPost(r) ==
  /\ cron.req[r].pc = "post"
  /\ \E ok \in BOOLEAN :
       cron' = IF ok
               THEN [cron EXCEPT !.ugcPosts = Append(@, cron.clock),
                                 !.req[r].pc = "update"]
               ELSE [cron EXCEPT !.req[r] =
                       [pc |-> "done", response |-> "error"]]
  /\ CronFrame

\* db.automationSettings.lastPosted = now; writeDb(db), whose failure is
\* logged and not looked at
CronUpdate(r) ==
  /\ cron.req[r].pc = "update"
  /\ \E written \in BOOLEAN :
       cron' = [cron EXCEPT
         !.lastPosted = IF written THEN cron.clock ELSE @,
         !.req[r] = [pc |-> "done", response |-> "Autonomously posted!"]]
  /\ CronFrame

\* the response is sent
CronReturn(r) ==
  /\ cron.req[r].pc = "done"
  /\ cron' = [cron EXCEPT !.req[r] = CronReqIdle]
  /\ CronFrame

\* time passes between requests: a request lasts seconds
CronTick ==
  /\ \A r \in CronRequests : cron.req[r].pc = "idle"
  /\ cron.ticks < MaxCronTicks
  /\ cron' = [cron EXCEPT !.clock = @ + CronTickMins, !.ticks = @ + 1]
  /\ CronFrame

CronRequest(r) ==
  \/ CronReceive(r) \/ CronGenerate(r) \/ CronPost(r) \/ CronUpdate(r)
  \/ CronReturn(r)

NextCron == CronTick \/ (\E r \in CronRequests : CronRequest(r))

SpecCron == InitCron /\ [][NextCron]_vars

\* a post in the database, or an id without a row
InitPosting ==
  /\ file = NewDb
  /\ now = 0
  /\ nextId = 1
  /\ gen = [g \in GenCycles |-> GenIdle]
  /\ pub = [p \in PubCycles |-> PubIdle]
  /\ op = OpIdle
  /\ requests = 0
  /\ markCount = [i \in PostIds |-> 0]
  /\ calc = CalcIdle
  /\ switch = "none"
  /\ cron = CronOff
  /\ \E e \in BOOLEAN, a \in BOOLEAN, sc \in Schedulings :
       web = [WebOff EXCEPT !.post.exists = e, !.post.account = a,
                            !.post.scheduling = sc]

WebFrame ==
  UNCHANGED <<file, now, nextId, gen, pub, op, requests, markCount, calc,
              switch, cron>>

\* POST /api/posts/[id]/publish: auth, findUnique, the ownership check
RouteFind(q) ==
  /\ web.route[q].pc = "idle"
  /\ web.served < MaxPublishRequests
  /\ \E session \in BOOLEAN, owner \in BOOLEAN :
       web' = [web EXCEPT
         !.served = @ + 1,
         !.route[q] =
           IF ~session THEN [pc |-> "done", response |-> "Unauthorized"]
           ELSE IF ~web.post.exists
           THEN [pc |-> "done", response |-> "Post not found"]
           ELSE IF ~owner THEN [pc |-> "done", response |-> "Forbidden"]
           ELSE [pc |-> "add", response |-> ""]]
  /\ WebFrame

\* schedulePost up to postingQueue.add (it throws on a time in the past), or
\* publishPostNow
RouteAdd(q) ==
  /\ web.route[q].pc = "add"
  /\ web' =
       IF web.post.scheduling = "past"
       THEN [web EXCEPT !.route[q] =
               [pc |-> "done", response |-> "Failed to publish post"]]
       ELSE IF web.post.scheduling = "future"
       THEN [web EXCEPT !.jobs[web.added + 1] = NewJob("delayed"),
                        !.added = @ + 1,
                        !.route[q].pc = "scheduleStatus"]
       ELSE [web EXCEPT !.jobs[web.added + 1] = NewJob("waiting"),
                        !.added = @ + 1,
                        !.route[q].pc = "update"]
  /\ WebFrame

\* schedulePost: prisma.postSchedule.updateMany
RouteScheduleStatus(q) ==
  /\ web.route[q].pc = "scheduleStatus"
  /\ web' = [web EXCEPT !.schedule = "SCHEDULED", !.route[q].pc = "update"]
  /\ WebFrame

\* prisma.post.update: status SCHEDULED, or PUBLISHING
RouteUpdate(q) ==
  /\ web.route[q].pc = "update"
  /\ web' = [web EXCEPT
       !.post.status = IF web.post.scheduling = "future" THEN "SCHEDULED"
                       ELSE "PUBLISHING",
       !.route[q] = [pc |-> "done", response |-> "queued"]]
  /\ WebFrame

\* the response is sent
RouteReturn(q) ==
  /\ web.route[q].pc = "done"
  /\ web' = [web EXCEPT !.route[q] = RouteIdle]
  /\ WebFrame

Route(q) ==
  \/ RouteFind(q) \/ RouteAdd(q) \/ RouteScheduleStatus(q) \/ RouteUpdate(q)
  \/ RouteReturn(q)

\* the delay of the job, or the backoff of its retry, is over
JobDelayElapsed(k) ==
  /\ web.jobs[k].state = "delayed"
  /\ web' = [web EXCEPT !.jobs[k].state = "waiting"]
  /\ WebFrame

\* the worker takes a waiting job: postingQueue.process handles one job at
\* a time
JobTake(k) ==
  /\ web.jobs[k].state = "waiting"
  /\ \A j \in JobIds : web.jobs[j].state # "active"
  /\ web' = [web EXCEPT !.jobs[k].state = "active", !.jobs[k].pc = "find"]
  /\ WebFrame

\* prisma.post.findUnique and the two checks
JobFind(k) ==
  /\ web.jobs[k].pc = "find"
  /\ web' = [web EXCEPT !.jobs[k].pc =
       IF web.post.exists /\ web.post.account THEN "publishing" ELSE "catch"]
  /\ WebFrame

\* prisma.post.update: status PUBLISHING
JobPublishing(k) ==
  /\ web.jobs[k].pc = "publishing"
  /\ web' = [web EXCEPT !.post.status = "PUBLISHING",
                        !.jobs[k].pc = "createPost"]
  /\ WebFrame

\* linkedInClient.createPost: LinkedIn accepts the post, or the call throws
JobCreatePost(k) ==
  /\ web.jobs[k].pc = "createPost"
  /\ \E ok \in BOOLEAN :
       web' = IF ok
              THEN [web EXCEPT !.jobs[k].sent = @ + 1,
                               !.jobs[k].pc = "published"]
              ELSE [web EXCEPT !.jobs[k].pc = "catch"]
  /\ WebFrame

\* prisma.post.update: status PUBLISHED
JobPublished(k) ==
  /\ web.jobs[k].pc = "published"
  /\ web' = [web EXCEPT !.post.status = "PUBLISHED",
                        !.jobs[k].pc = "analytics"]
  /\ WebFrame

\* prisma.postAnalytics.create, which the database accepts or rejects, and
\* the return
JobAnalytics(k) ==
  /\ web.jobs[k].pc = "analytics"
  /\ \E ok \in BOOLEAN :
       web' = IF ok
              THEN [web EXCEPT !.analytics = @ + 1,
                               !.jobs[k].state = "completed",
                               !.jobs[k].pc = ""]
              ELSE [web EXCEPT !.jobs[k].pc = "catch"]
  /\ WebFrame

\* catch: prisma.post.update status FAILED (on a missing row it throws in
\* its turn) and throw: the queue retries the job until its attempts are
\* used up
JobCatch(k) ==
  /\ web.jobs[k].pc = "catch"
  /\ web' = [web EXCEPT
       !.post.status = IF web.post.exists THEN "FAILED" ELSE @,
       !.jobs[k] = [@ EXCEPT
          !.attemptsMade = @ + 1,
          !.pc = "",
          !.state = IF web.jobs[k].attemptsMade + 1 < Attempts
                    THEN "delayed" ELSE "failed"]]
  /\ WebFrame

Worker(k) ==
  \/ JobDelayElapsed(k) \/ JobTake(k) \/ JobFind(k) \/ JobPublishing(k)
  \/ JobCreatePost(k) \/ JobPublished(k) \/ JobAnalytics(k) \/ JobCatch(k)

NextPosting ==
  \/ (\E q \in RouteRequests : Route(q))
  \/ (\E k \in JobIds : Worker(k))

SpecPosting == InitPosting /\ [][NextPosting]_vars

\* the process starts on a new database file, or on the file of an earlier run
\* in which the operator had switched automation on
Init ==
  /\ file \in {NewDb, ToggleAutomation(NewDb, TRUE, 0)}
  /\ now = 0
  /\ nextId = 1
  /\ gen = [g \in GenCycles |-> GenIdle]
  /\ pub = [p \in PubCycles |-> PubIdle]
  /\ op = OpIdle
  /\ requests = 0
  /\ markCount = [i \in PostIds |-> 0]
  /\ calc = CalcIdle
  /\ switch = "none"
  /\ cron = CronOff
  /\ web = WebOff

\* a database in which the operator has switched automation on and stored a
\* schedule through PUT /api/schedule/config (which stores what it is sent)
InitSchedule ==
  /\ \E ty \in ScheduleTypes, cs \in CustomSchedules, pw \in BOOLEAN :
       file = [ToggleAutomation(NewDb, TRUE, 0) EXCEPT
                 !.config.scheduleType = ty, !.config.customSchedule = cs,
                 !.config.pauseOnWeekends = pw]
  /\ now \in StartHours
  /\ nextId = 1
  /\ gen = [g \in GenCycles |-> GenIdle]
  /\ pub = [p \in PubCycles |-> PubIdle]
  /\ op = OpIdle
  /\ requests = 0
  /\ markCount = [i \in PostIds |-> 0]
  /\ calc \in {[CalcIdle EXCEPT !.secs = x] : x \in {0, 1}}
  /\ switch = "none"
  /\ cron = CronOff
  /\ web = WebOff

\* calculateNextPostTime(config) on the stored config at the clock's reading
CalcNextPostTime ==
  /\ calc.pc = "idle"
  /\ calc' = [calc EXCEPT !.pc = "done",
                !.result = CalculateNextPostTimeOfConfig(file.config,
                             Instant(now, calc.secs))]
  /\ UNCHANGED <<file, now, nextId, gen, pub, op, requests, markCount, switch, cron, web>>

\* a run in which the LinkedIn API gives one of its answers
InitPublisher ==
  /\ file \in {NewDb, ToggleAutomation(NewDb, TRUE, 0)}
  /\ now = 0
  /\ nextId = 1
  /\ gen = [g \in GenCycles |-> GenIdle]
  /\ pub = [p \in PubCycles |-> PubIdle]
  /\ op = OpIdle
  /\ requests = 0
  /\ markCount = [i \in PostIds |-> 0]
  /\ calc \in {[CalcIdle EXCEPT !.api = r] : r \in Responses}
  /\ switch = "none"
  /\ cron = CronOff
  /\ web = WebOff

\* postToLinkedIn on the API's answer
CalcPostToLinkedIn ==
  /\ calc.pc = "idle"
  /\ calc' = [calc EXCEPT !.pc = "done", !.result = PostToLinkedIn(calc.api)]
  /\ UNCHANGED <<file, now, nextId, gen, pub, op, requests, markCount, switch, cron, web>>

\* ------------------------------------------------------ quality-scorer.js
\* A post's content is read through the counts the scorer's regular
\* expressions and splits take of it:
\*   words         content.split(/\s+/).length
\*   chars         content.length
\*   questions     matches of /\?/g
\*   emojis        matches of /[\u{1F300}-\u{1F9FF}]/gu
\*   cta           "primary": one of 'what do you think', 'share your',
\*                 'let me know'; "other": another phrase of ctaPhrases
\*   lines         non-blank lines
\*   paragraphs    non-blank pieces of content.split('\n\n')
\*   bullets       "bullet": /[•\-\*]\s/; "numbered": /^\d+\.\s/m only
\*   hashtags      matches of /#\w+/g
\*   hookStart     how the first line starts: with one of the hook emojis,
\*                 with one of the hook keywords, or with neither
\*   hookNumber    /\d+/ on the first line
\*   hookQuestion  /\?$/ on the first line
\*   hookChars     length of the first two lines joined
\*   caps          matches of /\b[A-Z]{3,}\b/g
\*   exclamations  matches of /!/g
\*   slang         one of slangWords occurs
\* the empty string: ''.split(/\s+/) is [''], and no line is left
BlankContent ==
  [words |-> 1, chars |-> 0, questions |-> 0, emojis |-> 0, cta |-> "none",
   lines |-> 0, paragraphs |-> 0, bullets |-> "none", hashtags |-> 0,
   hookStart |-> "plain", hookNumber |-> FALSE, hookQuestion |-> FALSE,
   hookChars |-> 0, caps |-> 0, exclamations |-> 0, slang |-> FALSE]

\* a content with the given counts: l words and characters, q question
\* marks, e emojis, c call to action, y lines and paragraphs, b bullets,
\* t hashtags, h hook, o tone
Content(l, q, e, c, y, b, t, h, o) ==
  [words |-> l[1], chars |-> l[2], questions |-> q, emojis |-> e, cta |-> c,
   lines |-> y[1], paragraphs |-> y[2], bullets |-> b, hashtags |-> t,
   hookStart |-> h[1], hookNumber |-> h[2], hookQuestion |-> h[3],
   hookChars |-> h[4], caps |-> o[1], exclamations |-> o[2], slang |-> o[3]]

Min(a, b) == IF a <= b THEN a ELSE b

Max(a, b) == IF a >= b THEN a ELSE b

ScoreLengthQuality(content) ==
  IF /\ content.words >= 150 /\ content.words <= 300
     /\ content.chars >= 800 /\ content.chars <= 1500
  THEN 20
  ELSE IF content.words >= 100 /\ content.words <= 400 THEN 15
  ELSE IF content.words >= 50 /\ content.words <= 500 THEN 10
  ELSE 5

ScoreEngagementUncapped(content) ==
  content.questions * 5
  + (IF content.emojis >= 2 /\ content.emojis <= 5 THEN 5
     ELSE IF content.emojis = 1 \/ content.emojis = 6 THEN 3 ELSE 0)
  + (IF content.cta # "none" THEN 5 ELSE 0)

ScoreEngagementElements(content) ==
  Min(Min(content.questions * 5, 10)
      + (IF content.emojis >= 2 /\ content.emojis <= 5 THEN 5
         ELSE IF content.emojis = 1 \/ content.emojis = 6 THEN 3 ELSE 0)
      + (IF content.cta # "none" THEN 5 ELSE 0),
      20)

\* avgParaLength is the paragraphs' words over their number: the comparisons
\* are taken on the products, and with no paragraph it is NaN, on which both
\* comparisons are false
ScoreReadability(content) ==
  Min((IF content.lines >= 5 /\ content.lines <= 15 THEN 8
       ELSE IF content.lines >= 3 THEN 5 ELSE 0)
      + (IF content.paragraphs = 0 THEN 0
         ELSE IF /\ content.words >= 15 * content.paragraphs
                 /\ content.words <= 50 * content.paragraphs THEN 7
         ELSE IF content.words < 80 * content.paragraphs THEN 4 ELSE 0)
      + (IF content.bullets # "none" THEN 5 ELSE 0),
      20)

ScoreHashtags(content) ==
  IF content.hashtags >= 3 /\ content.hashtags <= 5 THEN 15
  ELSE IF content.hashtags >= 2 /\ content.hashtags <= 7 THEN 10
  ELSE IF content.hashtags = 1 \/ content.hashtags = 8 THEN 5
  ELSE 0

ScoreHook(content) ==
  IF content.lines = 0 THEN 0
  ELSE Min((IF content.hookStart = "emoji" THEN 4 ELSE 0)
           + (IF content.hookStart = "keyword" THEN 4 ELSE 0)
           + (IF content.hookNumber THEN 4 ELSE 0)
           + (IF content.hookQuestion THEN 4 ELSE 0)
           + (IF content.hookChars >= 40 /\ content.hookChars <= 120
              THEN 3 ELSE 0),
           15)

ScoreTone(content) ==
  Max(10 - (IF content.caps > 3 THEN 3 ELSE 0)
         - (IF content.exclamations > 3 THEN 2 ELSE 0)
         - (IF content.slang THEN 3 ELSE 0),
      0)

\* the hints, by the name of what each asks for
GenerateSuggestions(content, scores) ==
  (IF scores.length < 15
   THEN IF content.words < 150 THEN <<"too short">> ELSE <<"too long">>
   ELSE <<>>)
  \o (IF scores.engagement < 15
      THEN (IF content.questions = 0 THEN <<"add question">> ELSE <<>>)
           \o (IF content.emojis < 2 THEN <<"add emojis">> ELSE <<>>)
           \o (IF content.cta # "primary" THEN <<"add call-to-action">>
               ELSE <<>>)
      ELSE <<>>)
  \o (IF scores.readability < 15
      THEN <<"shorter paragraphs">>
           \o (IF content.bullets # "bullet" THEN <<"use bullet points">>
               ELSE <<>>)
      ELSE <<>>)
  \o (IF scores.hashtags < 10
      THEN IF content.hashtags < 3 THEN <<"add hashtags">>
           ELSE IF content.hashtags > 5 THEN <<"reduce hashtags">>
           ELSE <<>>
      ELSE <<>>)
  \o (IF scores.hook < 10 THEN <<"strengthen hook">> ELSE <<>>)
  \o (IF scores.tone < 8 THEN <<"professional tone">> ELSE <<>>)

\* the scores are whole numbers: Math.round leaves the total as it is
ScorePost(content) ==
  LET scores == [length |-> ScoreLengthQuality(content),
                 engagement |-> ScoreEngagementElements(content),
                 readability |-> ScoreReadability(content),
                 hashtags |-> ScoreHashtags(content),
                 hook |-> ScoreHook(content),
                 tone |-> ScoreTone(content)]
      totalScore == scores.length + scores.engagement + scores.readability
                    + scores.hashtags + scores.hook + scores.tone
  IN  [totalScore |-> totalScore,
       breakdown |-> scores,
       suggestions |-> GenerateSuggestions(content, scores),
       passed |-> totalScore >= PassScore]

\* a run in which a post's content is scored: the contents take every branch
\* of the six sub-scorers; a first line ending in a question mark holds a
\* question mark
InitScorer ==
  /\ file = NewDb
  /\ now = 0
  /\ nextId = 1
  /\ gen = [g \in GenCycles |-> GenIdle]
  /\ pub = [p \in PubCycles |-> PubIdle]
  /\ op = OpIdle
  /\ requests = 0
  /\ markCount = [i \in PostIds |-> 0]
  /\ LET Lengths == {<<40, 250>>, <<120, 700>>, <<200, 1200>>,
                     <<450, 2600>>, <<600, 3500>>}
         QuestionCounts == {0, 1, 3}
         EmojiCounts == {0, 1, 3, 6, 7}
         CtaKinds == {"none", "primary", "other"}
         Layouts == {<<1, 1>>, <<3, 1>>, <<6, 3>>, <<16, 8>>}
         BulletKinds == {"none", "bullet", "numbered"}
         HashtagCounts == {0, 1, 3, 6, 8, 9}
         Hooks == {<<"plain", FALSE, FALSE, 20>>, <<"plain", TRUE, FALSE, 80>>,
                   <<"emoji", FALSE, FALSE, 80>>,
                   <<"keyword", TRUE, FALSE, 80>>,
                   <<"keyword", TRUE, TRUE, 80>>,
                   <<"emoji", TRUE, TRUE, 150>>}
         Tones == {<<0, 0, FALSE>>, <<4, 0, FALSE>>, <<0, 4, FALSE>>,
                   <<4, 4, TRUE>>}
     IN  \/ calc = [CalcIdle EXCEPT !.arg = BlankContent]
         \/ \E l \in Lengths, q \in QuestionCounts, e \in EmojiCounts,
               c \in CtaKinds, y \in Layouts, b \in BulletKinds,
               t \in HashtagCounts, h \in Hooks, o \in Tones :
              /\ h[3] => q >= 1
              /\ calc = [CalcIdle EXCEPT
                           !.arg = Content(l, q, e, c, y, b, t, h, o)]
  /\ switch = "none"
  /\ cron = CronOff
  /\ web = WebOff

\* scorePost(content)
CalcScorePost ==
  /\ calc.pc = "idle"
  /\ calc' = [calc EXCEPT !.pc = "done", !.result = ScorePost(calc.arg)]
  /\ UNCHANGED <<file, now, nextId, gen, pub, op, requests, markCount, switch, cron, web>>

\* ------------------------------------------- getUpcomingScheduledTimes
\* count of GET /api/schedule/upcoming
Counts == {1, 2, 3}

\* getScheduleConfig: the stored config with its defaults filled in
GetScheduleConfig(config) ==
  [config EXCEPT
     !.scheduleType = IF @ = "unset" THEN "interval" ELSE @,
     !.postingInterval = IF @ = 0 THEN FallbackInterval ELSE @,
     !.customSchedule = IF @ = <<>> THEN DefaultCustomSchedule ELSE @]

\* the for loop of getUpcomingScheduledTimes from index i: nextTime is
\* pushed, and the time after it is computed; in custom mode the call passes
\* the moved time as a property _overrideNow of the config and no second
\* argument, so that calculateCustomPostTime works on new Date()
RECURSIVE UpcomingTimes(_, _, _, _, _, _)
UpcomingTimes(config, t, nextTime, i, count, times) ==
  IF i >= count THEN [kind |-> "times", times |-> times]
  ELSE LET following ==
             IF config.scheduleType = "custom"
             THEN CalculateCustomPostTime(config, t)
             ELSE [kind |-> "time",
                   at |-> Instant(nextTime.h + config.postingInterval,
                                  nextTime.s),
                   days |-> 0]
       IN  IF following.kind = "throws"
           THEN [kind |-> "throws", times |-> <<>>]
           ELSE UpcomingTimes(config, t, following.at, i + 1, count,
                              Append(times, nextTime))

\* getUpcomingScheduledTimes(count) on the stored config at time t
GetUpcomingScheduledTimes(stored, t, count) ==
  LET config == GetScheduleConfig(stored)
      first == CalculateNextPostTimeOfConfig(config, t)
  IN  IF first.kind = "throws" THEN [kind |-> "throws", times |-> <<>>]
      ELSE UpcomingTimes(config, t, first.at, 0, count, <<>>)

\* a stored schedule, and a request for the upcoming times
InitUpcoming ==
  /\ \E ty \in ScheduleTypes, cs \in CustomSchedules, pw \in BOOLEAN :
       file = [ToggleAutomation(NewDb, TRUE, 0) EXCEPT
                 !.config.scheduleType = ty, !.config.customSchedule = cs,
                 !.config.pauseOnWeekends = pw]
  /\ now \in StartHours
  /\ nextId = 1
  /\ gen = [g \in GenCycles |-> GenIdle]
  /\ pub = [p \in PubCycles |-> PubIdle]
  /\ op = OpIdle
  /\ requests = 0
  /\ markCount = [i \in PostIds |-> 0]
  /\ calc \in {[CalcIdle EXCEPT !.secs = x, !.arg = n] :
                 x \in {0, 1}, n \in Counts}
  /\ switch = "none"
  /\ cron = CronOff
  /\ web = WebOff

\* GET /api/schedule/upcoming
CalcUpcoming ==
  /\ calc.pc = "idle"
  /\ calc' = [calc EXCEPT !.pc = "done",
                !.result = GetUpcomingScheduledTimes(file.config,
                             Instant(now, calc.secs), calc.arg)]
  /\ UNCHANGED <<file, now, nextId, gen, pub, op, requests, markCount, switch, cron, web>>

SpecUpcoming == InitUpcoming /\ [][CalcUpcoming]_vars

\* ------------------------------------------------------------- the clock
\* an invocation (a cycle, an operator request) lasts seconds and the clock
\* step is hours: the clock advances between invocations, not inside one
Quiet ==
  /\ \A g \in GenCycles : gen[g].pc = "idle"
  /\ \A p \in PubCycles : pub[p].pc = "idle"
  /\ op.pc = "idle"

Tick ==
  /\ now < MaxTicks * TickHours
  /\ Quiet
  /\ now' = now + TickHours
  /\ UNCHANGED <<file, nextId, gen, pub, op, requests, markCount, calc, switch, cron, web>>

\* ------------------------------------------------- runPostGenerationJob
\* ids still to be handed out cover every cycle that has taken an article and
\* has yet to create its record
PreCreate == {"generate", "regen", "createRead"}
IdsReserved == Cardinality({g \in GenCycles : gen[g].pc \in PreCreate})

GenFrame == UNCHANGED <<file, now, nextId, pub, op, requests, markCount, calc, switch, cron, web>>

\* getAutomationConfig(); if (!config.enabled) return
GenStart(g) ==
  /\ gen[g].pc = "idle"
  /\ gen' = [gen EXCEPT ![g] =
       IF file.config.enabled
       THEN [GenIdle EXCEPT !.pc = "articles",
                            !.interval = file.config.postingInterval]
       ELSE [GenIdle EXCEPT !.pc = "end", !.result = "disabled"]]
  /\ GenFrame

\* a cycle that stamps lastRun and nextRun before it returns without an article
GenGetArticlesStampsRun(g) ==
  /\ gen[g].pc = "articles"
  /\ UnprocessedArticles(file) = {} \/ nextId + IdsReserved <= MaxPosts
  /\ gen' = [gen EXCEPT ![g] =
       IF UnprocessedArticles(file) = {}
       THEN [@ EXCEPT !.pc = "end", !.result = "noarticle"]
       ELSE [@ EXCEPT !.pc = "generate",
                      !.article = MostRecent(UnprocessedArticles(file))]]
  /\ file' = IF UnprocessedArticles(file) = {}
             THEN UpdateAutomationConfig(file, now,
                    CalculateNextPostTime(now, gen[g].interval))
             ELSE file
  /\ UNCHANGED <<now, nextId, pub, op, requests, markCount, calc, switch, cron, web>>

\* getUnprocessedArticles(5); if (articles.length === 0) return; articles[0]
GenGetArticles(g) ==
  /\ gen[g].pc = "articles"
  /\ UnprocessedArticles(file) = {} \/ nextId + IdsReserved <= MaxPosts
  /\ gen' = [gen EXCEPT ![g] =
       IF UnprocessedArticles(file) = {}
       THEN [@ EXCEPT !.pc = "end", !.result = "noarticle"]
       ELSE [@ EXCEPT !.pc = "generate",
                      !.article = MostRecent(UnprocessedArticles(file))]]
  /\ GenFrame

\* generatePostFromArticle throws: caught by the job's catch, which notifies
GenGenerateFails(g) ==
  /\ gen[g].pc = "generate"
  /\ gen' = [gen EXCEPT ![g] = [@ EXCEPT !.pc = "end", !.result = "aborted"]]
  /\ GenFrame

\* generatePostFromArticle returns; scorePost; the regeneration decision
GenGenerate(g) ==
  /\ gen[g].pc = "generate"
  /\ \E s \in Scores, env \in EnvMinQuality :
       gen' = [gen EXCEPT ![g] =
         IF NeedsRegeneration(s, MinQualityScore(env))
         THEN [@ EXCEPT !.pc = "regen", !.content = "original", !.first = s,
                        !.score = s, !.env = env, !.regens = 1]
         ELSE [@ EXCEPT !.pc = "createRead", !.content = "original", !.first = s,
                        !.score = s, !.env = env,
                        !.sched = CalculateNextPostTime(now, gen[g].interval)]]
  /\ GenFrame

\* a failed regeneration that ends the cycle in the job's catch
GenRegenerateFailsAborts(g) ==
  /\ gen[g].pc = "regen"
  /\ gen' = [gen EXCEPT ![g] = [@ EXCEPT !.pc = "end", !.result = "aborted"]]
  /\ GenFrame

\* the regeneration call throws, or returns no choices: the original is kept
GenRegenerateFails(g) ==
  /\ gen[g].pc = "regen"
  /\ gen' = [gen EXCEPT ![g] =
       [@ EXCEPT !.pc = "createRead",
                 !.sched = CalculateNextPostTime(now, gen[g].interval)]]
  /\ GenFrame

\* the regeneration call returns a draft, which is scored again
GenRegenerate(g) ==
  /\ gen[g].pc = "regen"
  /\ \E s \in Scores :
       gen' = [gen EXCEPT ![g] =
         [@ EXCEPT !.pc = "createRead", !.content = "regenerated", !.score = s,
                   !.sched = CalculateNextPostTime(now, gen[g].interval)]]
  /\ GenFrame

\* createScheduledPost: getDb and the push
GenCreateRead(g) ==
  /\ gen[g].pc = "createRead"
  /\ gen' = [gen EXCEPT ![g] =
       [@ EXCEPT !.pc = "createWrite", !.post = nextId,
                 !.first = NULL, !.env = NULL, !.regens = 0,
                 !.buf = CreateScheduledPost(file,
                           NewPost(nextId, gen[g].article, gen[g].content, gen[g].sched, now))]]
  /\ nextId' = nextId + 1
  /\ UNCHANGED <<file, now, pub, op, requests, markCount, calc, switch, cron, web>>

\* createScheduledPost: saveDb; then the auto-approve decision
GenCreateWrite(g) ==
  /\ gen[g].pc = "createWrite"
  /\ file' = gen[g].buf
  /\ gen' = [gen EXCEPT ![g] =
       [gen[g] EXCEPT
          !.pc = IF AutoApprove(gen[g].score) THEN "approveRead" ELSE "procRead",
          !.approved = AutoApprove(gen[g].score), !.buf = NewDb]]
  /\ UNCHANGED <<now, nextId, pub, op, requests, markCount, calc, switch, cron, web>>

\* approvePost: getDb and find; 'Post not found' is caught by the job's catch
GenApproveRead(g) ==
  /\ gen[g].pc = "approveRead"
  /\ gen' = [gen EXCEPT ![g] =
       IF HasPost(file, gen[g].post)
       THEN [@ EXCEPT !.pc = "approveWrite", !.buf = ApprovePost(file, gen[g].post)]
       ELSE [@ EXCEPT !.pc = "end", !.result = "aborted"]]
  /\ GenFrame

\* approvePost: saveDb
GenApproveWrite(g) ==
  /\ gen[g].pc = "approveWrite"
  /\ file' = gen[g].buf
  /\ gen' = [gen EXCEPT ![g] =
       [gen[g] EXCEPT !.pc = "procRead", !.buf = NewDb]]
  /\ UNCHANGED <<now, nextId, pub, op, requests, markCount, calc, switch, cron, web>>

\* sendQualityScoreAlert (its failure is caught); markArticleProcessed: getDb
GenProcRead(g) ==
  /\ gen[g].pc = "procRead"
  /\ gen' = [gen EXCEPT ![g] =
       [@ EXCEPT !.pc = "procWrite",
                 !.buf = MarkArticleProcessed(file, gen[g].article)]]
  /\ GenFrame

\* markArticleProcessed: saveDb
GenProcWrite(g) ==
  /\ gen[g].pc = "procWrite"
  /\ file' = gen[g].buf
  /\ gen' = [gen EXCEPT ![g] =
       [gen[g] EXCEPT !.pc = "cfgRead", !.buf = NewDb]]
  /\ UNCHANGED <<now, nextId, pub, op, requests, markCount, calc, switch, cron, web>>

\* updateAutomationConfig({lastRun, nextRun}): getDb and the merge
GenCfgRead(g) ==
  /\ gen[g].pc = "cfgRead"
  /\ gen' = [gen EXCEPT ![g] =
       [@ EXCEPT !.pc = "cfgWrite",
                 !.buf = UpdateAutomationConfig(file, now,
                           CalculateNextPostTime(now, gen[g].interval))]]
  /\ GenFrame

\* updateAutomationConfig: saveDb; the job returns
GenCfgWrite(g) ==
  /\ gen[g].pc = "cfgWrite"
  /\ file' = gen[g].buf
  /\ gen' = [gen EXCEPT ![g] =
       [gen[g] EXCEPT !.pc = "end", !.result = "done", !.buf = NewDb]]
  /\ UNCHANGED <<now, nextId, pub, op, requests, markCount, calc, switch, cron, web>>

\* the invocation is over; the timer may fire again
GenReturn(g) ==
  /\ gen[g].pc \in {"end", "uncaught"}
  /\ gen' = [gen EXCEPT ![g] = GenIdle]
  /\ GenFrame

\* ----------------------------------------------------- runPublishingJob
PubFrame == UNCHANGED <<file, now, nextId, gen, op, requests, markCount, calc, switch, cron, web>>

\* the for-of loop moves to the next ready post, or the job returns
PubAdvance(l) ==
  IF l.idx < Len(l.ready)
  THEN [l EXCEPT !.pc = "markRead", !.idx = @ + 1, !.buf = NewDb]
  ELSE [l EXCEPT !.pc = "end", !.buf = NewDb]

\* getReadyPosts(); if (readyPosts.length === 0) return
PubQuery(p) ==
  /\ pub[p].pc = "idle"
  /\ pub' = [pub EXCEPT ![p] =
       IF GetReadyPosts(file, now) = <<>>
       THEN [PubIdle EXCEPT !.pc = "end", !.qnow = now]
       ELSE [PubIdle EXCEPT !.pc = "markRead", !.ready = GetReadyPosts(file, now),
                            !.idx = 1, !.qnow = now]]
  /\ PubFrame

\* markPostAsPosted(post.id, null): getDb and find; 'Post not found' goes to
\* the loop's catch
PubMarkRead(p) ==
  /\ pub[p].pc = "markRead"
  /\ LET id == pub[p].ready[pub[p].idx].id IN
     pub' = [pub EXCEPT ![p] =
       IF HasPost(file, id)
       THEN [@ EXCEPT !.pc = "markWrite",
                      !.buf = MarkPostAsPosted(file, id, NULL, now)]
       ELSE [@ EXCEPT !.pc = "failRead"]]
  /\ PubFrame

\* markPostAsPosted: saveDb; sendPostPublishedNotification (failure caught)
PubMarkWrite(p) ==
  /\ pub[p].pc = "markWrite"
  /\ file' = pub[p].buf
  /\ LET id == pub[p].ready[pub[p].idx].id IN
     markCount' = [markCount EXCEPT ![id] = IF @ < 2 THEN @ + 1 ELSE @]
  /\ pub' = [pub EXCEPT ![p] = PubAdvance(@)]
  /\ UNCHANGED <<now, nextId, gen, op, requests, calc, switch, cron, web>>

\* catch: markPostAsFailed(post.id, error.message): getDb and find; its
\* 'Post not found' is thrown out of the catch block and out of the job
PubFailRead(p) ==
  /\ pub[p].pc = "failRead"
  /\ LET id == pub[p].ready[pub[p].idx].id IN
     pub' = [pub EXCEPT ![p] =
       IF HasPost(file, id)
       THEN [@ EXCEPT !.pc = "failWrite",
                      !.buf = MarkPostAsFailed(file, id, "Post not found")]
       ELSE [@ EXCEPT !.pc = "uncaught"]]
  /\ PubFrame

\* markPostAsFailed: saveDb
PubFailWrite(p) ==
  /\ pub[p].pc = "failWrite"
  /\ file' = pub[p].buf
  /\ pub' = [pub EXCEPT ![p] = PubAdvance(@)]
  /\ UNCHANGED <<now, nextId, gen, op, requests, markCount, calc, switch, cron, web>>

\* the invocation is over (returned, or rejected with an uncaught error)
PubReturn(p) ==
  /\ pub[p].pc \in {"end", "uncaught"}
  /\ pub' = [pub EXCEPT ![p] = PubIdle]
  /\ PubFrame

\* ------------------------------------------------------ operator routes
OpFrame ==
  /\ requests' = requests + 1
  /\ UNCHANGED <<file, now, nextId, gen, pub, markCount, calc, switch, cron, web>>

\* POST /api/scheduled-posts/:id/approve: approvePost, getDb and find
\* (an unknown id throws 'Post not found'; the route answers 500)
OpApprove(i) ==
  /\ op.pc = "idle"
  /\ requests < MaxRequests
  /\ HasPost(file, i)
  /\ op' = [pc |-> "write", kind |-> "approve", target |-> i,
            buf |-> ApprovePost(file, i)]
  /\ OpFrame

\* DELETE /api/scheduled-posts/:id: deleteScheduledPost, getDb and filter
OpDelete(i) ==
  /\ op.pc = "idle"
  /\ requests < MaxRequests
  /\ op' = [pc |-> "write", kind |-> "delete", target |-> i,
            buf |-> DeleteScheduledPost(file, i)]
  /\ OpFrame

\* POST /api/automation/toggle: toggleAutomation, getDb and the change
OpToggle(e) ==
  /\ op.pc = "idle"
  /\ requests < MaxRequests
  /\ op' = [pc |-> "write", kind |-> "toggle", target |-> 0,
            buf |-> ToggleAutomation(file, e, now)]
  /\ OpFrame

\* PUT /api/automation/config {postingInterval}: outside 1..24 the route
\* answers 400; otherwise updateAutomationConfig, getDb and the merge
OpSetInterval(h) ==
  /\ op.pc = "idle"
  /\ requests < MaxRequests
  /\ op' = IF h < 1 \/ h > 24
           THEN OpIdle
           ELSE [pc |-> "write", kind |-> "config", target |-> 0,
                 buf |-> UpdatePostingInterval(file, h)]
  /\ OpFrame

\* saveDb of the operator's request
OpWrite ==
  /\ op.pc = "write"
  /\ file' = op.buf
  /\ op' = OpIdle
  /\ switch' = IF op.kind # "toggle" THEN switch
               ELSE IF op.buf.config.enabled THEN "on" ELSE "off"
  /\ UNCHANGED <<now, nextId, gen, pub, requests, markCount, calc, cron, web>>

\* -------------------------------------------------------- specification
GenCycle(g) ==
  \/ GenStart(g) \/ GenGetArticles(g) \/ GenGenerateFails(g) \/ GenGenerate(g)
  \/ GenRegenerateFails(g) \/ GenRegenerate(g)
  \/ GenCreateRead(g) \/ GenCreateWrite(g)
  \/ GenApproveRead(g) \/ GenApproveWrite(g)
  \/ GenProcRead(g) \/ GenProcWrite(g)
  \/ GenCfgRead(g) \/ GenCfgWrite(g) \/ GenReturn(g)

PubCycle(p) ==
  \/ PubQuery(p) \/ PubMarkRead(p) \/ PubMarkWrite(p)
  \/ PubFailRead(p) \/ PubFailWrite(p) \/ PubReturn(p)

Operator ==
  \/ \E i \in PostIds : OpApprove(i) \/ OpDelete(i)
  \/ \E e \in BOOLEAN : OpToggle(e)
  \/ OpWrite

\* the whole program: both timers, both manual triggers, the operator routes
Next ==
  \/ Tick
  \/ \E g \in GenCycles : GenCycle(g)
  \/ \E p \in PubCycles : PubCycle(p)
  \/ Operator

Spec == Init /\ [][Next]_vars

\* the two cron timers and the operator routes, no manual trigger
NextTimers == Tick \/ GenCycle("gtimer") \/ PubCycle("ptimer") \/ Operator

SpecTimers == Init /\ [][NextTimers]_vars

\* the generation timer and POST /api/automation/generate-now
NextGenerateNow == Tick \/ GenCycle("gtimer") \/ GenCycle("gmanual")

SpecGenerateNow == Init /\ [][NextGenerateNow]_vars

\* the timers, the operator routes and a manually triggered publish cycle
NextPublishNow ==
  Tick \/ GenCycle("gtimer") \/ (\E p \in PubCycles : PubCycle(p)) \/ Operator

SpecPublishNow == Init /\ [][NextPublishNow]_vars

\* the timers and the operator changing the posting interval or deleting
NextInterval ==
  \/ Tick \/ GenCycle("gtimer") \/ PubCycle("ptimer")
  \/ (\E h \in RequestedIntervals : OpSetInterval(h))
  \/ (\E i \in PostIds : OpDelete(i))
  \/ OpWrite

SpecInterval == Init /\ [][NextInterval]_vars

\* the schedule computation and the generation timer on a stored schedule
NextSchedule == CalcNextPostTime \/ GenCycle("gtimer")

SpecSchedule == InitSchedule /\ [][NextSchedule]_vars

\* the timers and the delete route, with the publisher function
NextPublisher ==
  \/ Tick \/ GenCycle("gtimer") \/ PubCycle("ptimer")
  \/ (\E i \in PostIds : OpDelete(i)) \/ OpWrite
  \/ CalcPostToLinkedIn

SpecPublisher == InitPublisher /\ [][NextPublisher]_vars

\* the scorer on a post's content
SpecScorer == InitScorer /\ [][CalcScorePost]_vars

\* ------------------------------------------------------ reading a step
PostIdsOf(db) == {db.posts[k].id : k \in 1..Len(db.posts)}

GenWrites == {"createWrite", "approveWrite", "procWrite", "cfgWrite"}
PubWrites == {"markWrite", "failWrite"}

\* the step is taken by generation cycle g, publish cycle p, the operator
GenStep(g) == gen'[g].pc # gen[g].pc
PubStep(p) == pub'[p].pc # pub[p].pc
OpStep == op'.pc # op.pc

\* the id the publish cycle is handling
Current(p) == pub[p].ready[pub[p].idx].id

\* ---------------------------------------------------------------- claims

\* C1: in every reachable state every record of the queue has postedAt
\* non-null if and only if its status is posted.
C1_PostedAtIffPosted ==
  \A k \in 1..Len(file.posts) :
    (file.posts[k].postedAt # NULL) <=> (file.posts[k].status = "posted")

\* C2: the publish cycle calls markPostAsPosted only for a record that, in the
\* result of the cycle's getReadyPosts query, was approved, due at the time of
\* the query and not yet posted; the record it then marks is that record, and
\* it is not scheduled in the future.
C2_PublishesOnlyReady ==
  [][\A p \in PubCycles :
       (pub[p].pc = "markRead" /\ pub'[p].pc = "markWrite") =>
         LET r == pub[p].ready[pub[p].idx] IN
         /\ r.status = "approved"
         /\ r.scheduledFor <= pub[p].qnow
         /\ r.postedAt = NULL
         /\ PostOf(file, r.id).scheduledFor <= now
         /\ PostOf(pub'[p].buf, r.id).status = "posted"]_vars

\* C2 witness: the cycle is about to save a record as posted while the queue
\* also holds a record that is pending or not yet due, which it passed over.
C2_Witness ==
  \E p \in PubCycles :
    /\ pub[p].pc = "markWrite"
    /\ \E k \in 1..Len(file.posts) :
         /\ file.posts[k].id # Current(p)
         /\ \/ file.posts[k].status = "pending"
            \/ file.posts[k].scheduledFor > now
         /\ \A j \in 1..Len(pub[p].ready) : pub[p].ready[j].id # file.posts[k].id

\* C3: once a record is posted or failed, no step of a generation cycle or of
\* a publish cycle changes or removes it.
C3_TerminalForCycles ==
  [][\A i \in PostIdsOf(file) :
       ( /\ PostOf(file, i).status \in {"posted", "failed"}
         /\ \/ \E g \in GenCycles : GenStep(g)
            \/ \E p \in PubCycles : PubStep(p) )
       => (HasPost(file', i) /\ PostOf(file', i) = PostOf(file, i))]_vars

\* the record a generation cycle created, as the file holds it
OwnPost(g) == PostOf(file, gen[g].post)

\* C4 as stated: at the end of a generation cycle that created a record which
\* is still in the queue, the record is approved if and only if the final
\* score is >= 80.
C4_ApprovedIffScore80AtEnd ==
  \A g \in GenCycles :
    (gen[g].pc = "end" /\ gen[g].post # 0 /\ HasPost(file, gen[g].post)) =>
      ((OwnPost(g).status = "approved") <=> (gen[g].score >= 80))

\* C4 amended: createScheduledPost saves the new record as pending; the cycle
\* goes on to call approvePost on it if and only if the final (possibly
\* regenerated) score is >= 80, and the save of that call leaves the record
\* approved; with a lower final score the cycle never approves the record.
C4_AutoApproveDecision ==
  [][\A g \in GenCycles :
       /\ (gen[g].pc = "createWrite" /\ gen'[g].pc # "createWrite")
          => /\ HasPost(file', gen[g].post)
             /\ PostOf(file', gen[g].post).status = "pending"
             /\ gen'[g].pc = IF gen[g].score >= 80 THEN "approveRead" ELSE "procRead"
       /\ (gen'[g].pc \in {"approveRead", "approveWrite"})
          => (gen'[g].score >= 80 /\ gen'[g].approved)
       /\ (gen'[g].pc \in {"procRead", "procWrite", "cfgRead", "cfgWrite"}
           \/ (gen'[g].pc = "end" /\ gen'[g].result = "done"))
          => (gen'[g].approved <=> (gen'[g].score >= 80))
       /\ (gen[g].pc = "approveWrite" /\ gen'[g].pc = "procRead")
          => (HasPost(file', gen[g].post)
              /\ PostOf(file', gen[g].post).status = "approved")]_vars

\* C4 witness: a cycle whose regenerated draft scored 72 or 85 has run to
\* completion with its record in the queue, approved for 85 and pending for 72,
\* next to the record of an earlier cycle.
C4_Witness ==
  \E g \in GenCycles :
    /\ gen[g].pc = "end" /\ gen[g].result = "done"
    /\ gen[g].content = "regenerated"
    /\ gen[g].score \in {72, 85}
    /\ gen[g].approved = (gen[g].score = 85)
    /\ HasPost(file, gen[g].post)
    /\ OwnPost(g).status = IF gen[g].score = 85 THEN "approved" ELSE "pending"
    /\ Len(file.posts) = 2

\* the MIN_QUALITY_SCORE the operator configured: the variable, or 70 when unset
ConfiguredMinQuality(env) == IF env = NULL THEN DefaultMinQuality ELSE env

\* C5: a generation cycle has requested exactly one regeneration when its
\* first draft scored below the configured MIN_QUALITY_SCORE and none
\* otherwise.
C5_RegeneratesIffBelowMin ==
  \A g \in GenCycles :
    gen[g].pc \in {"regen", "createRead"} =>
      gen[g].regens =
        IF gen[g].first < ConfiguredMinQuality(gen[g].env) THEN 1 ELSE 0

\* C6: a publish cycle that has ended, by returning or by an error, has
\* handled every record of its ready list.
C6_AllReadyHandled ==
  \A p \in PubCycles :
    pub[p].pc \in {"end", "uncaught"} =>
      pub[p].idx = Len(pub[p].ready)

\* C7: no invocation of the generation cycle or of the publish cycle ends
\* with an uncaught exception.
C7_NoUncaught ==
  /\ \A g \in GenCycles : gen[g].pc # "uncaught"
  /\ \A p \in PubCycles : pub[p].pc # "uncaught"

\* C8: the queue never holds two records for the same source article.
C8_OnePostPerArticle ==
  \A j, k \in 1..Len(file.posts) :
    j # k => file.posts[j].articleId # file.posts[k].articleId

\* what a step changed in the file
ChangedPosts ==
  {i \in PostIdsOf(file) \cup PostIdsOf(file') :
     \/ HasPost(file, i) # HasPost(file', i)
     \/ (HasPost(file, i) /\ HasPost(file', i) /\ PostOf(file, i) # PostOf(file', i))}
ChangedArticles == {a \in Articles : file.articles[a] # file'.articles[a]}
ConfigChanged == file.config # file'.config

\* C9: no completed write is lost: the save of an operation changes only what
\* that operation is about (the record it creates, approves, marks or deletes,
\* the article it marks processed, the config it updates) and leaves in place
\* whatever the other requests have saved since the operation read the file.
C9_NoLostWrite ==
  [][/\ \A g \in GenCycles :
          (gen[g].pc \in GenWrites /\ GenStep(g)) =>
            /\ ChangedPosts \subseteq
                 (IF gen[g].pc \in {"createWrite", "approveWrite"}
                  THEN {gen[g].post} ELSE {})
            /\ ChangedArticles \subseteq
                 (IF gen[g].pc = "procWrite" THEN {gen[g].article} ELSE {})
            /\ ConfigChanged => gen[g].pc = "cfgWrite"
     /\ \A p \in PubCycles :
          (pub[p].pc \in PubWrites /\ PubStep(p)) =>
            /\ ChangedPosts \subseteq {Current(p)}
            /\ ChangedArticles = {}
            /\ ~ConfigChanged
     /\ (op.pc = "write" /\ OpStep) =>
            /\ ChangedPosts \subseteq
                 (IF op.kind \in {"approve", "delete"} THEN {op.target} ELSE {})
            /\ ChangedArticles = {}
            /\ ConfigChanged => op.kind \in {"toggle", "config"}]_vars

\* C10: markPostAsPosted is applied to a record at most once.
C10_MarkedAtMostOnce == \A i \in PostIds : markCount[i] <= 1

\* C11: a publish cycle handles the records of its ready list in ascending
\* scheduledFor order: no record still to be handled in the cycle is scheduled
\* earlier than the record being handled.
C11_AscendingScheduledFor ==
  \A p \in PubCycles :
    pub[p].pc \in {"markRead", "markWrite", "failRead", "failWrite"} =>
      \A k \in (pub[p].idx + 1)..Len(pub[p].ready) :
        pub[p].ready[pub[p].idx].scheduledFor <= pub[p].ready[k].scheduledFor

\* C12: the scheduledFor of the record a generation cycle creates is the time
\* calculateNextPostTime(config) gives for the stored config at the cycle's
\* clock reading: now + postingInterval in interval mode, the custom slot in
\* custom mode.
C12_ScheduledForFromConfig ==
  \A g \in GenCycles :
    gen[g].pc = "createWrite" =>
      LET c == CalculateNextPostTimeOfConfig(file.config, Instant(now, 0)) IN
      c.kind = "time" =>
        PostOf(gen[g].buf, gen[g].post).scheduledFor = c.at.h

\* the stored config is in custom mode and the computation has been made
CustomDone == calc.pc = "done" /\ file.config.scheduleType = "custom"

\* the schedule calculateCustomPostTime works on
Effective == IF file.config.customSchedule = <<>> THEN DefaultCustomSchedule
             ELSE file.config.customSchedule

\* no slot string of the schedule is unparseable
Parseable == \A d \in 1..DaysPerWeek : \A k \in 1..Len(Effective[d]) : Effective[d][k] # NaN

\* the hours of the configured slots, this week and the next, on the days that
\* pauseOnWeekends does not skip
SlotHours ==
  LET weekStart == now - (now % (HoursPerDay * DaysPerWeek)) IN
  UNION { { weekStart + d * HoursPerDay + Effective[(d % DaysPerWeek) + 1][k] :
              k \in 1..Len(Effective[(d % DaysPerWeek) + 1]) } :
          d \in {e \in 0..(2 * DaysPerWeek - 1) :
                   ~(file.config.pauseOnWeekends /\ (e % DaysPerWeek) \in {0, 6})} }

\* the slots that are not before the clock's reading
UpcomingSlotHours ==
  {h \in SlotHours : ~IsBefore(Instant(h, 0), Instant(now, calc.secs))}

\* C13: in custom mode, with parseable slots and at least one slot on a day
\* that is not skipped, calculateNextPostTime returns the earliest configured
\* slot instant that is not before now.
C13_EarliestSlotNotBeforeNow ==
  (CustomDone /\ Parseable /\ SlotHours # {}) =>
    /\ calc.result.kind = "time"
    /\ calc.result.at.s = 0
    /\ calc.result.at.h \in UpcomingSlotHours
    /\ \A h \in UpcomingSlotHours : calc.result.at.h <= h

\* C14: in custom mode with pauseOnWeekends the returned time is never on a
\* Saturday or a Sunday.
C14_NeverOnWeekend ==
  (CustomDone /\ file.config.pauseOnWeekends /\ calc.result.kind = "time") =>
    GetDay(calc.result.at) \notin {0, 6}

\* C15: calculateNextPostTime never raises, scans at most 7 days, and returns
\* now + 6 hours when the schedule has no usable slot.
C15_Total ==
  calc.pc = "done" =>
    /\ calc.result.kind = "time"
    /\ calc.result.days <= DaysPerWeek
    /\ (file.config.scheduleType = "custom" /\ Parseable /\ SlotHours = {})
         => calc.result.at = Instant(now + 6, calc.secs)

PastFailedRegeneration(l) ==
  /\ l.pc \notin {"idle", "articles", "generate", "regen"}
  /\ l.content = "original"
  /\ NeedsRegeneration(l.score, DefaultMinQuality)

C18_PostedHasExternalId ==
  [][\A p \in PubCycles :
       (pub[p].pc = "markWrite" /\ PubStep(p)) =>
         /\ HasPost(file', Current(p))
         /\ PostOf(file', Current(p)).status = "posted"
         /\ PostOf(file', Current(p)).postedAt # NULL
         /\ PostOf(file', Current(p)).linkedInPostId # NULL]_vars

\* C19: the publish cycle marks a record posted only when the publisher's call
\* for it returned an identifier, which it does for an accepted post and for a
\* rejection as duplicate content; on any other rejection the call raises and
\* the record is not marked posted.
C19_PostedOnlyIfPublisherReturned ==
  [][\A p \in PubCycles :
       (pub[p].pc = "markWrite" /\ PubStep(p)) =>
         PostToLinkedIn(calc.api).kind = "id"]_vars

\* C20: after the operator's disable has returned, and until the operator
\* enables automation again, a generation cycle that starts reads enabled =
\* false and returns without creating a record.
C20_DisableHolds ==
  [][\A g \in GenCycles :
       (switch = "off" /\ gen[g].pc = "idle" /\ GenStep(g)) =>
         (gen'[g].pc = "end" /\ gen'[g].result = "disabled")]_vars

\* C21: the save that completes a generation cycle sets lastRun to the current
\* time and nextRun to a later time and leaves every other field of the
\* stored config as it was; no other step of a generation cycle, and so no
\* cycle that aborts, changes lastRun or nextRun.
C21_CompletionStampsRun ==
  [][\A g \in GenCycles :
       GenStep(g) =>
         IF gen[g].pc = "cfgWrite"
         THEN /\ file'.config.lastRun = now
              /\ file'.config.nextRun > now
              /\ file'.config = [file.config EXCEPT
                                   !.lastRun = file'.config.lastRun,
                                   !.nextRun = file'.config.nextRun]
         ELSE /\ file'.config.lastRun = file.config.lastRun
              /\ file'.config.nextRun = file.config.nextRun]_vars

\* the content scorePost was called with, once it has returned
Scored == calc.pc = "done" /\ "words" \in DOMAIN calc.arg

\* C22: scorePost's six sub-scores lie within their caps (length 0..20,
\* engagement 0..20, readability 0..20, hashtags 0..15, hook 0..15, tone
\* 0..10), totalScore is their sum and lies in 0..100, and passed holds
\* exactly when totalScore >= 70.
C22_ScoresWithinCaps ==
  Scored =>
    LET r == calc.result
        b == calc.result.breakdown
    IN  /\ b.length \in 0..20
        /\ b.engagement \in 0..20
        /\ b.readability \in 0..20
        /\ b.hashtags \in 0..15
        /\ b.hook \in 0..15
        /\ b.tone \in 0..10
        /\ r.totalScore = ScoreLengthQuality(calc.arg)
                          + ScoreEngagementElements(calc.arg)
                          + ScoreReadability(calc.arg)
                          + ScoreHashtags(calc.arg)
                          + ScoreHook(calc.arg) + ScoreTone(calc.arg)
        /\ r.totalScore \in 0..100
        /\ r.passed <=> r.totalScore >= 70

\* a scored post with three questions, emojis and a call to action: the
\* engagement points add up to more than the cap before Math.min
C22_Witness ==
  /\ Scored
  /\ calc.arg.questions = 3 /\ calc.arg.emojis = 3 /\ calc.arg.cta # "none"
  /\ calc.result.breakdown.engagement = 20
  /\ calc.result.passed

Range(seq) == {seq[k] : k \in 1..Len(seq)}

\* C23: for every criterion below its threshold (length < 15, engagement
\* < 15, readability < 15, hashtags < 10, hook < 10, tone < 8) the
\* suggestions hold a hint of that criterion, and a score that did not pass
\* comes with at least one hint.
C23_HintForEveryLowCriterion ==
  Scored =>
    LET b == calc.result.breakdown
        hints == Range(calc.result.suggestions)
    IN  /\ b.length < 15 => hints \cap {"too short", "too long"} # {}
        /\ b.engagement < 15 =>
             hints \cap {"add question", "add emojis", "add call-to-action"}
               # {}
        /\ b.readability < 15 =>
             hints \cap {"shorter paragraphs", "use bullet points"} # {}
        /\ b.hashtags < 10 =>
             hints \cap {"add hashtags", "reduce hashtags"} # {}
        /\ b.hook < 10 => "strengthen hook" \in hints
        /\ b.tone < 8 => "professional tone" \in hints
        /\ ~calc.result.passed => calc.result.suggestions # <<>>

\* C24: the save of createScheduledPost adds exactly one record to the stored
\* queue, with status pending and postedAt, linkedInPostId and error null,
\* after the records that were there, which it leaves as they were; no other
\* save adds a record.
C24_CreateAddsOnePending ==
  [][IF \E g \in GenCycles : gen[g].pc = "createWrite" /\ GenStep(g)
     THEN /\ Len(file'.posts) = Len(file.posts) + 1
          /\ SubSeq(file'.posts, 1, Len(file.posts)) = file.posts
          /\ LET new == file'.posts[Len(file'.posts)] IN
             /\ new.id \notin PostIdsOf(file)
             /\ new.status = "pending"
             /\ new.postedAt = NULL
             /\ new.linkedInPostId = NULL
             /\ new.error = ""
     ELSE PostIdsOf(file') \subseteq PostIdsOf(file)]_vars

\* C25: approvePost, markPostAsPosted and markPostAsFailed on an id the queue
\* does not hold fail with 'Post not found' and leave the stored queue and
\* config as they were; on an id the queue holds their save changes that
\* record and nothing else of the file.
C25_OnlyTheNamedRecord ==
  [][/\ \A g \in GenCycles :
          /\ (gen[g].pc = "approveRead" /\ GenStep(g)
              /\ ~HasPost(file, gen[g].post))
             => (gen'[g].result = "aborted" /\ file' = file)
          /\ (gen[g].pc = "approveWrite" /\ GenStep(g))
             => /\ ChangedPosts \subseteq {gen[g].post}
                /\ ChangedArticles = {}
                /\ ~ConfigChanged
     /\ \A p \in PubCycles :
          /\ (pub[p].pc \in {"markRead", "failRead"} /\ PubStep(p)
              /\ ~HasPost(file, Current(p)))
             => /\ pub'[p].pc \in {"failRead", "uncaught"}
                /\ file' = file
          /\ (pub[p].pc \in {"markWrite", "failWrite"} /\ PubStep(p))
             => /\ ChangedPosts \subseteq {Current(p)}
                /\ ChangedArticles = {}
                /\ ~ConfigChanged
     /\ (op.pc = "write" /\ op.kind = "approve" /\ OpStep)
          => /\ ChangedPosts \subseteq {op.target}
             /\ ChangedArticles = {}
             /\ ~ConfigChanged]_vars

\* the debounce window of the settings, in minutes
DebounceWindow ==
  IF cron.settings.customIntervalEnabled /\ cron.settings.customIntervalMins # 0
  THEN cron.settings.customIntervalMins - DriftBuffer
  ELSE DebounceMins

\* C26: the cron process endpoint never posts twice inside the debounce
\* window (50 minutes, or customIntervalMins - 5): any two posts LinkedIn
\* received from it are at least the window apart.
C26_NoTwoPostsInWindow ==
  \A i, j \in 1..Len(cron.ugcPosts) :
    i < j => cron.ugcPosts[j] - cron.ugcPosts[i] >= DebounceWindow

\* C27: the posting worker sends a post to LinkedIn at most once: after a
\* createPost of a job succeeded, no retry of the job calls createPost with
\* success again.
C27_SentAtMostOnce == \A k \in JobIds : web.jobs[k].sent <= 1

\* a step of the publish route's request q
RouteStep(q) == web'.route[q].pc # web.route[q].pc

\* C28: once the worker has set the post's status to PUBLISHED or FAILED, the
\* publish route does not overwrite it.
C28_RouteKeepsFinalStatus ==
  [][\A q \in RouteRequests :
       (RouteStep(q) /\ web.post.status \in {"PUBLISHED", "FAILED"})
         => web'.post.status = web.post.status]_vars

\* getQueueStats on the file at time t (nextPostTime left aside)
GetQueueStats(db, t) ==
  [totalPosts |-> Len(db.posts),
   pending |-> Len(SelectSeq(db.posts, LAMBDA p : p.status = "pending")),
   approved |-> Len(SelectSeq(db.posts, LAMBDA p : p.status = "approved")),
   posted |-> Len(SelectSeq(db.posts, LAMBDA p : p.status = "posted")),
   failed |-> Len(SelectSeq(db.posts, LAMBDA p : p.status = "failed")),
   upcoming |-> Len(SelectSeq(db.posts, LAMBDA p :
                  p.status \in {"pending", "approved"} /\ p.scheduledFor >= t)),
   overdue |-> Len(SelectSeq(db.posts, LAMBDA p :
                 p.status = "approved" /\ p.scheduledFor < t
                 /\ p.postedAt = NULL)),
   unprocessedArticles |-> Cardinality(UnprocessedArticles(db)),
   totalArticles |-> Cardinality(Articles)]

\* C29: the overdue count of getQueueStats equals the number of records
\* getReadyPosts returns on the same file at the same instant, a record
\* scheduled for that very instant included.
C29_OverdueIsReady ==
  GetQueueStats(file, now).overdue = Len(GetReadyPosts(file, now))

\* C30: getUpcomingScheduledTimes(count) returns count times, strictly
\* increasing, each the next scheduled time after the one before it (in
\* interval mode postingInterval hours later), in interval and in custom mode
\* alike; stated for schedules whose slots are all parseable.
C30_UpcomingStrictlyIncreasing ==
  (calc.pc = "done" /\ calc.arg \in Counts /\ Parseable) =>
    /\ calc.result.kind = "times"
    /\ Len(calc.result.times) = calc.arg
    /\ \A i \in 1..(Len(calc.result.times) - 1) :
         /\ IsBefore(calc.result.times[i], calc.result.times[i + 1])
         /\ file.config.scheduleType # "custom" =>
              calc.result.times[i + 1] =
                Instant(calc.result.times[i].h
                          + GetScheduleConfig(file.config).postingInterval,
                        calc.result.times[i].s)
====
